---- MODULE Spec2Model ----
(***************************************************************************)
(* Verification model of the Stage bumper/whisker sensor model             *)
(* (src/libstage/model_bumper.cc), of the tick scheduler that drives its   *)
(* Update and of the "source" example controller.                          *)
(*                                                                         *)
(* Units.  Lengths and coordinates are integers in units of 0.05 m (so a   *)
(* transducer of length 0.2 m is 4 and half of it is 2); headings are      *)
(* integer degrees, multiples of 90; power is in milliwatts.               *)
(***************************************************************************)
EXTENDS Integers, Sequences, FiniteSets, TLC

VARIABLES
    ndebug,           \* TRUE iff the build defines NDEBUG (assert() compiled out)
    aborted,          \* the process was terminated (failed assert / uncaught exception)
    wf,               \* the properties of this model's worldfile entity, in file order
    parent,           \* Model hierarchy: parent[m] or NoModel
    obstacle_return,  \* vis.obstacle_return of every model
    gpose,            \* global position <<x, y>> of every model
    bumper_count,     \* ModelBumper::bumper_count, per bumper model
    bumpers,          \* ModelBumper::bumpers, per bumper model
    samples,          \* ModelBumper::samples, per bumper model
    watts,            \* power draw reported by SetWatts, per bumper model
    lifecycle,        \* "Created", "Started", "Stopped" or "Destroyed", per bumper model
    nalloc,           \* number of sample buffers allocated so far (the last buffer id)
    freed,            \* ids of the sample buffers that were delete[]d
    fault,            \* memory faults so far: "overflow", "double_free", "null_read",
                      \* "oob_read"
    lastOp,           \* the operation that produced this state, and its model
    nworkers,         \* size of the world's worker pool
    tick,             \* the world's update (tick) counter
    phase,            \* "idle" between ticks, "updating" from dispatch to the barrier,
                      \* "halted" when the scheduler gave the tick up
    upd,              \* per model: its Update of this tick is "pending", "running",
                      \* "done" or "failed"
    tpos,             \* per bumper model: the loop index t of its running Update
    doneTick,         \* per model: the tick of the last Update that returned
    showBumperData,   \* ModelBumper::showBumperData, the "Show Bumper Data" option
    arrAddr,          \* per bumper model: the address its pointer bumpers holds (0 is NULL)
    arrLive,          \* addresses of the transducer arrays that are allocated
    emitted,          \* what the last operation cast, drew and printed
    flags,            \* per model: the flags it carries, the last pushed first
    callbacks,        \* per model: its registered update callbacks, in order
    ret,              \* the value the last controller function returned ({} if none)
    pushDue           \* per model: how many of its callbacks ran at a multiple of INTERVAL

vars == <<ndebug, aborted, wf, parent, obstacle_return, gpose, bumper_count,
          bumpers, samples, watts, lifecycle, nalloc, freed, fault, lastOp,
          nworkers, tick, phase, upd, tpos, doneTick, showBumperData, arrAddr,
          arrLive, emitted, flags, callbacks, ret, pushDue>>

worldVars == <<parent, obstacle_return, gpose>>

schedVars == <<nworkers, tick, phase, upd, tpos, doneTick>>

arrayHeap == <<arrAddr, arrLive>>

\* The state of the controllers.
ctrlVars == <<flags, callbacks, ret, pushDue>>

\* What no operation but Load, the destructor, the option's toggle and the
\* controllers changes.
staticVars == <<ndebug, showBumperData, arrAddr, arrLive, ctrlVars>>

-----------------------------------------------------------------------------
(* Bounds of the model *)

\* largest bcount a worldfile of the model declares
MaxCount == 3

\* largest number of properties in one worldfile entity
MaxDecls == 3

\* bound on the number of sample buffers allocated in one run
MaxAllocs == 2

\* number of ticks the scheduler runs
MaxTick == 2

\* largest update count of the world that runs the source controller
MaxUpdates == 401

\* largest number of flags a model carries
MaxFlags == 8

-----------------------------------------------------------------------------
(* Program constants *)

\* const int INTERVAL = 200
INTERVAL == 200

\* const double flagsz = 0.4, in units of 0.05 m
flagsz == 8

\* thickness = 0.02 and thickness = 0.01 in DataVisualize, in units of 0.005 m
HitThickness == 4

NoHitThickness == 2

\* BUMPER_WATTS = 0.1 W, in milliwatts
BUMPER_WATTS == 100

\* threads 4: the largest worker pool of the model
WorldThreads == 4

-----------------------------------------------------------------------------
(* Models of the world *)

NoModel == "none"

\* The sensing model and the other models of its world.
Sensor == "bumper"

Models == {"robot", "bumper", "whisker", "box"}

\* Registration order of the models (lowest first).
ModelOrder == <<"robot", "bumper", "whisker", "box">>

\* The models that are ModelBumper instances.
Bumpers == {"bumper", "whisker"}

-----------------------------------------------------------------------------
(* Worldfile entity: a sequence of property declarations.  Every value is a *)
(* tuple of four numbers; a scalar property uses the first component.       *)

NoIndex == -1

Key(name, idx) == [name |-> name, idx |-> idx]

\* snprintf(key, sizeof(key), "bpose[%d]", i) and "blength[%d]"
IndexedKey(name, i) == Key(name, i)

Decl(key, val) == [key |-> key, val |-> val]

Scalar(v) == <<v, 0, 0, 0>>

\* Wf::PropertyExists( entity, name )
PropertyExists(w, key) == \E i \in DOMAIN w : w[i].key = key

\* The property of that name: the first one in file order.
GetProperty(w, key) ==
    w[CHOOSE i \in DOMAIN w :
          /\ w[i].key = key
          /\ \A j \in DOMAIN w : w[j].key = key => i <= j]

\* Wf::ReadInt( entity, name, default )
ReadInt(w, key, default) ==
    IF PropertyExists(w, key) THEN GetProperty(w, key).val[1] ELSE default

\* Wf::ReadLength( entity, name, default )
ReadLength(w, key, default) ==
    IF PropertyExists(w, key) THEN GetProperty(w, key).val[1] ELSE default

\* Wf::ReadTupleLength( entity, name, index, default ), index counted from 0
ReadTupleLength(w, key, index, default) ==
    IF PropertyExists(w, key) THEN GetProperty(w, key).val[index + 1] ELSE default

\* Wf::ReadTupleAngle( entity, name, index, default )
ReadTupleAngle(w, key, index, default) ==
    IF PropertyExists(w, key) THEN GetProperty(w, key).val[index + 1] ELSE default

-----------------------------------------------------------------------------
(* The transducer array *)

Pose(x, y, z, a) == [x |-> x, y |-> y, z |-> z, a |-> a]

\* bumper_config_t
BumperConfig(pose, length) == [pose |-> pose, length |-> length]

\* A pointer to an array: null, or the array it points to (indexed from 0).
NullArray == [null |-> TRUE, elems |-> << >>]

Array(elems) == [null |-> FALSE, elems |-> elems]

\* Lines 144-148: every transducer gets the common length.
CommonLengths(n, common_length) == [i \in 0 .. n - 1 |-> common_length]

\* Lines 150-161 for transducer i: the pose is read from bpose[i] with default
\* 0 for every component; blength[i] overrides the length set so far.
LoadTransducer(w, i, length) ==
    BumperConfig(
        Pose(ReadTupleLength(w, IndexedKey("bpose", i), 0, 0),
             ReadTupleLength(w, IndexedKey("bpose", i), 1, 0),
             ReadTupleLength(w, IndexedKey("bpose", i), 2, 0),
             ReadTupleAngle(w, IndexedKey("bpose", i), 3, 0)),
        ReadLength(w, IndexedKey("blength", i), length))

\* A Load that applies the properties in file order: a blength that follows a
\* blength[i] in the file overwrites it.
LoadArrayInFileOrder(w, n) ==
    LET Pos(key) == CHOOSE i \in DOMAIN w : w[i].key = key
        common == ReadLength(w, Key("blength", NoIndex), 0)
        Length(i) ==
            IF /\ PropertyExists(w, IndexedKey("blength", i))
               /\ PropertyExists(w, Key("blength", NoIndex))
               /\ Pos(IndexedKey("blength", i)) < Pos(Key("blength", NoIndex))
            THEN common
            ELSE ReadLength(w, IndexedKey("blength", i), common)
    IN  [i \in 0 .. n - 1 |->
            [LoadTransducer(w, i, common) EXCEPT !.length = Length(i)]]

\* Lines 141-161: the array of n transducers that Load builds from the file.
LoadArray(w, n) ==
    LET common_length == ReadLength(w, Key("blength", NoIndex), 0)
        lengths == CommonLengths(n, common_length)
    IN  [i \in 0 .. n - 1 |-> LoadTransducer(w, i, lengths[i])]

-----------------------------------------------------------------------------
(* The worldfiles of the model *)

Counts == -1 .. MaxCount

\* Transducer lengths are even, so that length / 2.0 is a whole number of units.
CommonLengthValues == {2, 4}

LengthOverrideValues == {6}

PoseOverrideValues == {<<0, 0, 0, 180>>}

Decls ==
    {Decl(Key("bcount", NoIndex), Scalar(c)) : c \in Counts}
    \cup {Decl(Key("blength", NoIndex), Scalar(l)) : l \in CommonLengthValues}
    \cup {Decl(IndexedKey("blength", i), Scalar(l)) :
              i \in 0 .. MaxCount - 1, l \in LengthOverrideValues}
    \cup {Decl(IndexedKey("bpose", i), p) :
              i \in 0 .. MaxCount - 1, p \in PoseOverrideValues}

DistinctKeys(w) == \A i, j \in DOMAIN w : w[i].key = w[j].key => i = j

\* Every entity of at most MaxDecls properties, in every file order.
WorldFiles ==
    {w \in UNION {[1 .. n -> Decls] : n \in 0 .. MaxDecls} : DistinctKeys(w)}

KeyRank(key) ==
    CASE key.name = "bcount" -> 0
      [] key.name = "blength" /\ key.idx = NoIndex -> 1
      [] key.name = "blength" -> 2 + 2 * key.idx
      [] OTHER -> 3 + 2 * key.idx

\* The entities that declare at most bcount and the longest common blength,
\* in that order.
ConfigFiles ==
    {w \in WorldFiles :
        /\ \A i \in DOMAIN w :
              \/ w[i].key = Key("bcount", NoIndex)
              \/ w[i] = Decl(Key("blength", NoIndex), Scalar(4))
        /\ \A i, j \in DOMAIN w : i < j => KeyRank(w[i].key) < KeyRank(w[j].key)}

-----------------------------------------------------------------------------
(* Samples and the heap *)

NoPoint == [set |-> FALSE, x |-> 0, y |-> 0]

\* point_t( x, y )
Point(x, y) == [set |-> TRUE, x |-> x, y |-> y]

\* The hit field of a sample no Update has written yet.
Uninit == "uninit"

\* bumper_sample_t as new[] leaves it
FreshSample == [hit |-> Uninit, hit_point |-> NoPoint]

\* A pointer to a sample buffer: id 0 is NULL.
NullSamples == [id |-> 0, data |-> << >>]

IsNull(buf) == buf.id = 0

BufLen(buf) == Cardinality(DOMAIN buf.data)

\* new bumper_sample_t[n], as buffer number id
NewSamples(id, n) == [id |-> id, data |-> [t \in 0 .. n - 1 |-> FreshSample]]

\* N >= 1 once configured
Configured(m) == ~bumpers[m].null /\ bumper_count[m] >= 1

Op(op, m) == [op |-> op, m |-> m]

-----------------------------------------------------------------------------
(* Model hierarchy and raytracing *)

RECURSIVE IsAncestor(_, _)
\* a is an ancestor of b
IsAncestor(a, b) ==
    IF parent[b] = NoModel THEN FALSE
    ELSE parent[b] = a \/ IsAncestor(a, parent[b])

\* Model::IsRelated: the same model, an ancestor or a descendant
IsRelated(candidate, finder) ==
    \/ candidate = finder
    \/ IsAncestor(candidate, finder)
    \/ IsAncestor(finder, candidate)

\* A matcher that only tests visibility.
bumper_match_visible_only(candidate, finder) == obstacle_return[candidate]

\* bumper_match: ignore myself, my children, and my ancestors.
bumper_match(candidate, finder) ==
    obstacle_return[candidate] /\ ~IsRelated(candidate, finder)

Cos(a) == CASE a % 360 = 0 -> 1 [] a % 360 = 180 -> -1 [] OTHER -> 0

Sin(a) == CASE a % 360 = 90 -> 1 [] a % 360 = 270 -> -1 [] OTHER -> 0

\* A probe that keeps the heading of the transducer.
ProbePoseUnrotated(cfg) ==
    [a |-> cfg.pose.a,
     x |-> cfg.pose.x - (cfg.length \div 2) * Cos(cfg.pose.a),
     y |-> cfg.pose.y - (cfg.length \div 2) * Sin(cfg.pose.a)]

\* Lines 193-196: the probe of a transducer is rotated by PI/2 and starts at
\* one extremity of the transducer.
ProbePose(cfg) ==
    LET a == cfg.pose.a + 90
    IN  [a |-> a,
         x |-> cfg.pose.x - (cfg.length \div 2) * Cos(a),
         y |-> cfg.pose.y - (cfg.length \div 2) * Sin(a)]

Rank(m) == CHOOSE i \in DOMAIN ModelOrder : ModelOrder[i] = m

\* The point of the ray at range k, in world coordinates (models have heading 0).
RayPoint(finder, bpose, k) ==
    <<gpose[finder][1] + bpose.x + k * Cos(bpose.a),
      gpose[finder][2] + bpose.y + k * Sin(bpose.a)>>

NoHit == [mod |-> NoModel, x |-> 0, y |-> 0, range |-> 0]

\* The models a matcher accepts for a finder: the func argument of Raytrace.
Accepted(finder) == {c \in Models : bumper_match(c, finder)}

RECURSIVE RayWalk(_, _, _, _, _)
\* The ray is followed outwards from range k: the first point on which an
\* accepted model stands ends it; of several models there, the first registered.
RayWalk(finder, bpose, range, accepted, k) ==
    IF k > range THEN NoHit
    ELSE LET on == {c \in accepted : gpose[c] = RayPoint(finder, bpose, k)}
         IN  IF on = {} THEN RayWalk(finder, bpose, range, accepted, k + 1)
             ELSE [mod |-> CHOOSE c \in on : \A d \in on : Rank(c) <= Rank(d),
                   x |-> RayPoint(finder, bpose, k)[1],
                   y |-> RayPoint(finder, bpose, k)[2],
                   range |-> k]

\* Model::Raytrace( pose, range, func, arg ): the nearest model on the ray, within
\* range, that the matcher accepts.
Raytrace(finder, bpose, range, accepted) == RayWalk(finder, bpose, range, accepted, 0)

\* The arguments of one call of Raytrace: the pose of the ray and its range.
Ray(bpose, range) == [x |-> bpose.x, y |-> bpose.y, a |-> bpose.a, range |-> range]

\* Lines 189-201: the rays the loop of Update casts, one per transducer.
CastRays(m) ==
    [t \in 0 .. bumper_count[m] - 1 |->
        Ray(ProbePose(bumpers[m].elems[t]), bumpers[m].elems[t].length)]

\* An operation that casts no ray, draws no rectangle and prints no sample.
Quiet == [rays |-> << >>, rects |-> << >>, bits |-> << >>]

-----------------------------------------------------------------------------
(* ModelBumper operations *)

modelVars == <<bumper_count, bumpers, samples, watts, lifecycle>>

heapVars == <<nalloc, freed, fault>>

\* assert( cond ): terminates the process unless the build defines NDEBUG.
AssertFails(cond) == ~ndebug /\ ~cond

\* The address new[] returns: the lowest one that holds no array.
NewAddr(live) == CHOOSE a \in 1 .. Cardinality(live) + 1 : a \notin live

\* A Load that allocates the new array and never deletes the old one.
ReplaceArrayLeakingOld(m) ==
    LET addr == NewAddr(arrLive)
    IN  /\ arrAddr' = [arrAddr EXCEPT ![m] = addr]
        /\ arrLive' = arrLive \cup {addr}
        /\ UNCHANGED fault

\* Lines 138-139: delete[] the old array, if there is one, and allocate the new.
ReplaceArray(m) ==
    LET kept == IF arrAddr[m] # 0 THEN arrLive \ {arrAddr[m]} ELSE arrLive
        addr == NewAddr(kept)
    IN  /\ arrAddr' = [arrAddr EXCEPT ![m] = addr]
        /\ arrLive' = kept \cup {addr}
        /\ fault' = IF arrAddr[m] # 0 /\ arrAddr[m] \notin arrLive
                    THEN fault \cup {"double_free"} ELSE fault

\* A Load that reads the count whether or not the entity declares one.
LoadWithoutTest(m, w) ==
    /\ ~aborted
    /\ lifecycle[m] # "Destroyed"
    /\ wf' = w
    /\ lastOp' = Op("Load", m)
    /\ LET count == ReadInt(w, Key("bcount", NoIndex), 0)
       IN  /\ bumper_count' = [bumper_count EXCEPT ![m] = count]
           /\ IF AssertFails(count > 0)
              THEN /\ aborted' = TRUE
                   /\ UNCHANGED <<bumpers, arrayHeap, fault>>
              ELSE /\ aborted' = (count < 0)
                   /\ bumpers' = [bumpers EXCEPT ![m] =
                          IF count < 0 THEN NullArray ELSE Array(LoadArray(w, count))]
                   /\ ReplaceArray(m)
    /\ emitted' = Quiet
    /\ UNCHANGED <<schedVars, ndebug, showBumperData, ctrlVars, worldVars, samples, watts, lifecycle,
                   nalloc, freed>>

\* ModelBumper::Load with the entity w of the worldfile.  Model::Load (line
\* 166) reads the properties of the base class and touches no bumper state.
Load(m, w) ==
    /\ ~aborted
    /\ lifecycle[m] # "Destroyed"
    /\ wf' = w
    /\ lastOp' = Op("Load", m)
    /\ IF PropertyExists(w, Key("bcount", NoIndex))
       THEN LET count == ReadInt(w, Key("bcount", NoIndex), 0)
            IN  /\ bumper_count' = [bumper_count EXCEPT ![m] = count]
                /\ IF AssertFails(count > 0)
                   THEN \* line 134: assertion failure
                        /\ aborted' = TRUE
                        /\ UNCHANGED <<bumpers, arrayHeap, fault>>
                   ELSE IF count < 0
                   THEN \* line 139: new[] of a negative length throws; the
                        \* old array is already deleted
                        /\ aborted' = TRUE
                        /\ bumpers' = [bumpers EXCEPT ![m] = NullArray]
                        /\ arrAddr' = [arrAddr EXCEPT ![m] = 0]
                        /\ arrLive' = arrLive \ {arrAddr[m]}
                        /\ UNCHANGED fault
                   ELSE /\ aborted' = aborted
                        /\ bumpers' = [bumpers EXCEPT ![m] = Array(LoadArray(w, count))]
                        /\ ReplaceArray(m)
       ELSE UNCHANGED <<bumper_count, bumpers, aborted, arrayHeap, fault>>
    /\ emitted' = Quiet
    /\ UNCHANGED <<schedVars, ndebug, showBumperData, ctrlVars, worldVars, samples, watts, lifecycle,
                   nalloc, freed>>

\* A Startup that also drops the sample buffer.
StartupDroppingSamples(m) ==
    /\ ~aborted
    /\ lifecycle[m] # "Destroyed"
    /\ lifecycle' = [lifecycle EXCEPT ![m] = "Started"]
    /\ watts' = [watts EXCEPT ![m] = BUMPER_WATTS]
    /\ samples' = [samples EXCEPT ![m] = NullSamples]
    /\ lastOp' = Op("Startup", m)
    /\ emitted' = Quiet
    /\ UNCHANGED <<schedVars, staticVars, aborted, wf, worldVars, bumper_count, bumpers, heapVars>>

\* ModelBumper::Startup
Startup(m) ==
    /\ ~aborted
    /\ lifecycle[m] # "Destroyed"
    /\ lifecycle' = [lifecycle EXCEPT ![m] = "Started"]
    /\ watts' = [watts EXCEPT ![m] = BUMPER_WATTS]
    /\ lastOp' = Op("Startup", m)
    /\ emitted' = Quiet
    /\ UNCHANGED <<schedVars, staticVars, aborted, wf, worldVars, bumper_count, bumpers, samples,
                   heapVars>>

\* delete[] of sample buffer id
DeleteSamples(id) ==
    /\ freed' = freed \cup {id}
    /\ fault' = IF id \in freed THEN fault \cup {"double_free"} ELSE fault

\* A Shutdown that deletes the buffer and keeps the dangling pointer.
ShutdownKeepingPointer(m) ==
    /\ ~aborted
    /\ lifecycle[m] # "Destroyed"
    /\ watts' = [watts EXCEPT ![m] = 0]
    /\ IF ~IsNull(samples[m])
       THEN DeleteSamples(samples[m].id)
       ELSE UNCHANGED <<freed, fault>>
    /\ lifecycle' = [lifecycle EXCEPT ![m] = "Stopped"]
    /\ lastOp' = Op("Shutdown", m)
    /\ emitted' = Quiet
    /\ UNCHANGED <<schedVars, staticVars, aborted, wf, worldVars, bumper_count, bumpers, samples,
                   nalloc>>

\* A Shutdown that gives up the transducer array as well.
ShutdownDroppingArray(m) ==
    /\ ~aborted
    /\ lifecycle[m] # "Destroyed"
    /\ watts' = [watts EXCEPT ![m] = 0]
    /\ IF ~IsNull(samples[m])
       THEN /\ DeleteSamples(samples[m].id)
            /\ samples' = [samples EXCEPT ![m] = NullSamples]
       ELSE UNCHANGED <<samples, freed, fault>>
    /\ bumpers' = [bumpers EXCEPT ![m] = NullArray]
    /\ bumper_count' = [bumper_count EXCEPT ![m] = 0]
    /\ arrAddr' = [arrAddr EXCEPT ![m] = 0]
    /\ arrLive' = arrLive \ {arrAddr[m]}
    /\ lifecycle' = [lifecycle EXCEPT ![m] = "Stopped"]
    /\ lastOp' = Op("Shutdown", m)
    /\ emitted' = Quiet
    /\ UNCHANGED <<schedVars, ndebug, showBumperData, ctrlVars, aborted, wf, worldVars,
                   nalloc>>

\* ModelBumper::Shutdown
Shutdown(m) ==
    /\ ~aborted
    /\ lifecycle[m] # "Destroyed"
    /\ watts' = [watts EXCEPT ![m] = 0]
    /\ IF ~IsNull(samples[m])
       THEN /\ DeleteSamples(samples[m].id)
            /\ samples' = [samples EXCEPT ![m] = NullSamples]
       ELSE UNCHANGED <<samples, freed, fault>>
    /\ lifecycle' = [lifecycle EXCEPT ![m] = "Stopped"]
    /\ lastOp' = Op("Shutdown", m)
    /\ emitted' = Quiet
    /\ UNCHANGED <<schedVars, staticVars, aborted, wf, worldVars, bumper_count, bumpers, nalloc>>

\* A sample from a ray of half the transducer's length.
SenseSampleHalfRange(m, t, old) ==
    LET cfg == bumpers[m].elems[t]
        ray == Raytrace(m, ProbePose(cfg), cfg.length \div 2, Accepted(m))
    IN  [hit |-> ray.mod,
         hit_point |-> IF ray.mod # NoModel THEN Point(ray.x, ray.y)
                       ELSE old.hit_point]

\* Lines 193-205 for transducer t: the sample after the ray is cast.  The hit
\* point is written only when the ray hit something.
SenseSample(m, t, old) ==
    LET cfg == bumpers[m].elems[t]
        ray == Raytrace(m, ProbePose(cfg), cfg.length, Accepted(m))
    IN  [hit |-> ray.mod,
         hit_point |-> IF ray.mod # NoModel THEN Point(ray.x, ray.y)
                       ELSE old.hit_point]

\* Lines 189-206: the loop over the bumper_count transducers, on a buffer that
\* holds BufLen(buf) samples.
SenseAll(m, buf) ==
    [buf EXCEPT !.data = [t \in DOMAIN buf.data |->
        IF t < bumper_count[m] THEN SenseSample(m, t, buf.data[t])
        ELSE buf.data[t]]]

\* An Update without the test of lines 182-183.
UpdateWithoutEarlyReturn(m) ==
    /\ ~aborted
    /\ lifecycle[m] = "Started"
    /\ lastOp' = Op("Update", m)
    /\ LET alloc == IsNull(samples[m])
           count == IF bumpers[m].null THEN 0 ELSE bumper_count[m]
           buf == IF alloc THEN NewSamples(nalloc + 1, count) ELSE samples[m]
       IN  /\ alloc => nalloc < MaxAllocs
           /\ nalloc' = IF alloc THEN nalloc + 1 ELSE nalloc
           /\ samples' = [samples EXCEPT ![m] =
                  IF bumpers[m].null THEN buf ELSE SenseAll(m, buf)]
           /\ UNCHANGED <<freed, fault>>
    /\ emitted' = IF bumpers[m].null THEN Quiet ELSE [Quiet EXCEPT !.rays = CastRays(m)]
    /\ UNCHANGED <<schedVars, staticVars, aborted, wf, worldVars, bumper_count, bumpers, watts,
                   lifecycle>>

\* An Update that allocates a new buffer on every call.
UpdateAlwaysAllocating(m) ==
    /\ ~aborted
    /\ lifecycle[m] = "Started"
    /\ lastOp' = Op("Update", m)
    /\ IF bumpers[m].null \/ bumper_count[m] < 1
       THEN UNCHANGED <<samples, heapVars>>
       ELSE /\ nalloc < MaxAllocs
            /\ nalloc' = nalloc + 1
            /\ samples' = [samples EXCEPT ![m] =
                   SenseAll(m, NewSamples(nalloc + 1, bumper_count[m]))]
            /\ UNCHANGED <<freed, fault>>
    /\ emitted' = IF bumpers[m].null \/ bumper_count[m] < 1 THEN Quiet
                  ELSE [Quiet EXCEPT !.rays = CastRays(m)]
    /\ UNCHANGED <<schedVars, staticVars, aborted, wf, worldVars, bumper_count, bumpers, watts,
                   lifecycle>>

\* ModelBumper::Update, called by the world for a started model.  Model::Update
\* (line 180) touches no bumper state; new[] never returns NULL (line 187).
Update(m) ==
    /\ ~aborted
    /\ lifecycle[m] = "Started"
    /\ lastOp' = Op("Update", m)
    /\ IF bumpers[m].null \/ bumper_count[m] < 1
       THEN UNCHANGED <<samples, heapVars>>
       ELSE LET alloc == IsNull(samples[m])
                buf == IF alloc THEN NewSamples(nalloc + 1, bumper_count[m])
                       ELSE samples[m]
            IN  /\ alloc => nalloc < MaxAllocs
                /\ nalloc' = IF alloc THEN nalloc + 1 ELSE nalloc
                /\ samples' = [samples EXCEPT ![m] = SenseAll(m, buf)]
                /\ fault' = IF bumper_count[m] > BufLen(buf)
                            THEN fault \cup {"overflow"} ELSE fault
                /\ UNCHANGED freed
    /\ emitted' = IF bumpers[m].null \/ bumper_count[m] < 1 THEN Quiet
                  ELSE [Quiet EXCEPT !.rays = CastRays(m)]
    /\ UNCHANGED <<schedVars, staticVars, aborted, wf, worldVars, bumper_count, bumpers, watts,
                   lifecycle>>

\* ModelBumper::~ModelBumper: both buffers are deleted if their pointers are
\* set; the object is gone, and no operation follows on it.
Destroy(m) ==
    /\ ~aborted
    /\ lifecycle[m] # "Destroyed"
    /\ lifecycle' = [lifecycle EXCEPT ![m] = "Destroyed"]
    /\ arrLive' = IF ~bumpers[m].null THEN arrLive \ {arrAddr[m]} ELSE arrLive
    /\ LET twice == ~bumpers[m].null /\ arrAddr[m] \notin arrLive
       IN  IF ~IsNull(samples[m])
           THEN /\ freed' = freed \cup {samples[m].id}
                /\ fault' = IF twice \/ samples[m].id \in freed
                            THEN fault \cup {"double_free"} ELSE fault
           ELSE /\ fault' = IF twice THEN fault \cup {"double_free"} ELSE fault
                /\ UNCHANGED freed
    /\ lastOp' = Op("Destroy", m)
    /\ emitted' = Quiet
    /\ UNCHANGED <<schedVars, ndebug, showBumperData, arrAddr, ctrlVars, aborted, wf, worldVars,
                   bumper_count, bumpers, samples, watts, nalloc>>

\* printf( "%d ", samples[i].hit?1:0 )
HitBit(sample) == IF sample.hit # NoModel THEN 1 ELSE 0

\* What reading samples[i].hit can yield.  A sample that Update has written
\* yields its flag; an index outside the buffer, or a sample never written,
\* yields whatever the memory holds.
ReadBits(m, i) ==
    IF i \in DOMAIN samples[m].data /\ samples[m].data[i].hit # Uninit
    THEN {HitBit(samples[m].data[i])}
    ELSE {0, 1}

\* The faults of reading samples[0 .. bumper_count - 1].
ReadFaults(m) ==
    IF bumper_count[m] < 1 THEN {}
    ELSE IF IsNull(samples[m]) THEN {"null_read"}
    ELSE IF bumper_count[m] > BufLen(samples[m]) THEN {"oob_read"}
    ELSE {}

\* ModelBumper::Print.  Model::Print (line 211) prints the base class and
\* touches no bumper state.  The loop reads samples[i] for every i below
\* bumper_count, whether or not there is a buffer: through a NULL pointer the
\* read either ends the process or yields whatever the memory holds.
PrintSamples(m) ==
    /\ ~aborted
    /\ lifecycle[m] # "Destroyed"
    /\ lastOp' = Op("Print", m)
    /\ fault' = fault \cup ReadFaults(m)
    /\ \E crash \in {c \in BOOLEAN : c => "null_read" \in ReadFaults(m)} :
          /\ aborted' = crash
          /\ \E bits \in [0 .. bumper_count[m] - 1 -> {0, 1}] :
                /\ \A i \in DOMAIN bits : bits[i] \in ReadBits(m, i)
                /\ emitted' = IF crash THEN Quiet ELSE [Quiet EXCEPT !.bits = bits]
    /\ UNCHANGED <<schedVars, staticVars, wf, worldVars, modelVars, nalloc, freed>>

\* glColor3f( 1.0f, 0.0f, 0.0f ) and glColor3f( 0.0f, 1.0f, 0.0f )
Red == <<1, 0, 0>>

Green == <<0, 1, 0>>

\* Lines 232-244 for one transducer: the colour and the thickness follow the
\* hit flag read (1 or 0); the rectangle is centred on the transducer's pose,
\* as long as the transducer and as thick as the flag says.
Rect(cfg, bit) ==
    LET thickness == IF bit = 1 THEN HitThickness ELSE NoHitThickness
    IN  [color |-> IF bit = 1 THEN Red ELSE Green,
         rot |-> cfg.pose.a,
         tx |-> cfg.pose.x,
         ty |-> cfg.pose.y,
         x1 |-> -(cfg.length \div 2),
         y1 |-> -(thickness \div 2),
         x2 |-> cfg.length \div 2,
         y2 |-> thickness \div 2]

\* ModelBumper::DataVisualize
DataVisualize(m) ==
    /\ ~aborted
    /\ lifecycle[m] # "Destroyed"
    /\ lastOp' = Op("DataVisualize", m)
    /\ IF IsNull(samples[m]) \/ bumpers[m].null \/ bumper_count[m] = 0 \/ ~showBumperData
       THEN \* lines 224-228: nothing to draw, or drawing is switched off
            /\ emitted' = Quiet
            /\ UNCHANGED fault
       ELSE /\ fault' = fault \cup ReadFaults(m)
            /\ \E bits \in [0 .. bumper_count[m] - 1 -> {0, 1}] :
                  /\ \A t \in DOMAIN bits : bits[t] \in ReadBits(m, t)
                  /\ emitted' = [Quiet EXCEPT !.rects =
                         [t \in DOMAIN bits |-> Rect(bumpers[m].elems[t], bits[t])]]
    /\ UNCHANGED <<schedVars, staticVars, aborted, wf, worldVars, modelVars, nalloc, freed>>

\* The user switches the "Show Bumper Data" option of the view menu.
ToggleShow ==
    /\ ~aborted
    /\ showBumperData' = ~showBumperData
    /\ lastOp' = Op("Toggle", NoModel)
    /\ emitted' = Quiet
    /\ UNCHANGED <<schedVars, ndebug, arrayHeap, ctrlVars, aborted, wf, worldVars, modelVars,
                   heapVars>>

-----------------------------------------------------------------------------
(* The world around the sensor *)

\* Where the box can stand: one unit along the probe ray of a transducer of
\* length 4 at pose (0, 0, 0, 0), and out of reach of every transducer.
BoxCells == {<<0, -1>>, <<0, 5>>}

\* Between two ticks the box is moved.
MoveBox(c) ==
    /\ ~aborted
    /\ gpose["box"] # c
    /\ gpose' = [gpose EXCEPT !["box"] = c]
    /\ lastOp' = Op("Move", "box")
    /\ emitted' = Quiet
    /\ UNCHANGED <<schedVars, staticVars, aborted, wf, parent, obstacle_return, modelVars, heapVars>>

\* Every transducer array there is has its own address, in registration order.
ArraysAllocated ==
    /\ arrAddr = [m \in Bumpers |->
           IF bumpers[m].null THEN 0
           ELSE Cardinality({o \in Bumpers : ~bumpers[o].null /\ Rank(o) <= Rank(m)})]
    /\ arrLive = {arrAddr[m] : m \in Bumpers} \ {0}

\* Line 68: the option is on by default; nothing was cast, drawn or printed yet.
Unobserved ==
    /\ showBumperData = TRUE
    /\ emitted = Quiet

\* No controller has run: no model carries a flag or has a callback.
NoController ==
    /\ flags = [m \in Models |-> << >>]
    /\ callbacks = [m \in Models |-> << >>]
    /\ ret = {}
    /\ pushDue = [m \in Models |-> 0]

\* ModelBumper::ModelBumper for every bumper model
Constructed ==
    /\ bumpers = [m \in Bumpers |-> NullArray]
    /\ samples = [m \in Bumpers |-> NullSamples]
    /\ bumper_count = [m \in Bumpers |-> 0]
    /\ watts = [m \in Bumpers |-> 0]
    /\ lifecycle = [m \in Bumpers |-> "Created"]
    /\ nalloc = 0
    /\ freed = {}
    /\ fault = {}
    /\ aborted = FALSE
    /\ ArraysAllocated
    /\ Unobserved
    /\ NoController

\* A robot carrying the two bumper models (the whisker mounted one unit to the
\* side), and a free-standing box.
RobotWorld ==
    /\ parent = [m \in Models |-> IF m \in Bumpers THEN "robot" ELSE NoModel]
    /\ obstacle_return = [m \in Models |-> TRUE]
    /\ gpose \in {[m \in Models |->
                      CASE m = "box" -> c
                        [] m = "whisker" -> <<1, 0>>
                        [] OTHER -> <<0, 0>>] : c \in BoxCells}

\* The scheduler before the first tick, with a pool of n workers.
SchedulerIdle(n) ==
    /\ nworkers = n
    /\ tick = 0
    /\ phase = "idle"
    /\ upd = [m \in Models |-> "done"]
    /\ tpos = [m \in Bumpers |-> 0]
    /\ doneTick = [m \in Models |-> 0]

Init ==
    /\ ndebug \in BOOLEAN
    /\ wf = << >>
    /\ RobotWorld
    /\ Constructed
    /\ SchedulerIdle(1)
    /\ lastOp = Op("Init", Sensor)

Next ==
    \/ \E c \in BoxCells : MoveBox(c)
    \/ Startup(Sensor)
    \/ Update(Sensor)
    \/ Shutdown(Sensor)
    \/ \E w \in ConfigFiles : Load(Sensor, w)

Spec == Init /\ [][Next]_vars

-----------------------------------------------------------------------------
(* Specification SpecLoad: one Load of every worldfile entity, in every file  *)
(* order, on a sensor that is unconfigured or was configured before.          *)

PriorFiles ==
    {<< >>,
     <<Decl(Key("bcount", NoIndex), Scalar(1)), Decl(IndexedKey("blength", 0), Scalar(6))>>,
     <<Decl(Key("bcount", NoIndex), Scalar(MaxCount)),
       Decl(Key("blength", NoIndex), Scalar(4)),
       Decl(IndexedKey("bpose", 0), <<0, 0, 0, 180>>)>>}

\* The sensor as an earlier Load of the entity w0 left it.
LoadedFrom(w0) ==
    LET count == ReadInt(w0, Key("bcount", NoIndex), 0)
    IN  /\ bumper_count = [m \in Bumpers |-> IF m = Sensor THEN count ELSE 0]
        /\ bumpers = [m \in Bumpers |->
               IF m = Sensor /\ PropertyExists(w0, Key("bcount", NoIndex))
               THEN Array(LoadArray(w0, count)) ELSE NullArray]
        /\ samples = [m \in Bumpers |-> NullSamples]
        /\ watts = [m \in Bumpers |-> 0]
        /\ lifecycle = [m \in Bumpers |-> "Created"]
        /\ nalloc = 0
        /\ freed = {}
        /\ fault = {}
        /\ aborted = FALSE
        /\ ArraysAllocated
        /\ Unobserved
        /\ NoController

InitLoad ==
    /\ ndebug \in BOOLEAN
    /\ wf \in WorldFiles
    /\ RobotWorld
    /\ \E w0 \in PriorFiles : LoadedFrom(w0)
    /\ SchedulerIdle(1)
    /\ lastOp = Op("Init", Sensor)

\* The world loads the sensor from its entity of the worldfile.
LoadEntity ==
    /\ lastOp.op = "Init"
    /\ Load(Sensor, wf)

NextLoad == LoadEntity

SpecLoad == InitLoad /\ [][NextLoad]_vars

-----------------------------------------------------------------------------
(* Specification SpecSense: one started sensor in every small world: every    *)
(* hierarchy of the models, every visibility, the other models on and off its *)
(* probe rays.                                                                *)

\* Every parent map without a cycle.
Hierarchies ==
    {p \in [Models -> Models \cup {NoModel}] :
        \A m \in Models :
            LET RECURSIVE Reaches(_, _)
                Reaches(a, n) ==
                    IF n = 0 \/ p[a] = NoModel THEN FALSE
                    ELSE p[a] = m \/ Reaches(p[a], n - 1)
            IN  ~Reaches(m, Cardinality(Models))}

\* On both probe rays near one end, on both near the other end, out of reach.
SenseCells == {<<0, -1>>, <<0, 1>>, <<0, 5>>}

\* Two transducers of length 4 at the sensor's origin, facing opposite ways.
SenseFile ==
    <<Decl(Key("bcount", NoIndex), Scalar(2)),
      Decl(Key("blength", NoIndex), Scalar(4)),
      Decl(IndexedKey("bpose", 1), <<0, 0, 0, 180>>)>>

InitSense ==
    /\ ndebug = FALSE
    /\ wf = SenseFile
    /\ parent \in Hierarchies
    /\ obstacle_return \in {v \in [Models -> BOOLEAN] : v[Sensor]}
    /\ gpose \in {g \in [Models -> SenseCells \cup {<<0, 0>>}] :
                     /\ g[Sensor] = <<0, 0>>
                     /\ \A m \in Models \ {Sensor} : g[m] \in SenseCells}
    /\ bumper_count = [m \in Bumpers |-> IF m = Sensor THEN 2 ELSE 0]
    /\ bumpers = [m \in Bumpers |->
           IF m = Sensor THEN Array(LoadArray(SenseFile, 2)) ELSE NullArray]
    /\ samples = [m \in Bumpers |-> NullSamples]
    /\ watts = [m \in Bumpers |-> IF m = Sensor THEN BUMPER_WATTS ELSE 0]
    /\ lifecycle = [m \in Bumpers |-> IF m = Sensor THEN "Started" ELSE "Created"]
    /\ nalloc = 0
    /\ freed = {}
    /\ fault = {}
    /\ aborted = FALSE
    /\ ArraysAllocated
    /\ Unobserved
    /\ NoController
    /\ SchedulerIdle(1)
    /\ lastOp = Op("Init", Sensor)

\* One tick of the sensor.
SenseOnce ==
    /\ lastOp.op = "Init"
    /\ Update(Sensor)

NextSense == SenseOnce

SpecSense == InitSense /\ [][NextSense]_vars

-----------------------------------------------------------------------------
(* Specification SpecProbe: a sensor with one transducer of every length,     *)
(* position and heading is started and updated once.                          *)

ProbeLengths == {2, 4, 6}

ProbePoses == {<<x, y, 0, a>> : x \in {0, 2}, y \in {-1, 0}, a \in {0, 90, 180, 270}}

ProbeFiles ==
    {<<Decl(Key("bcount", NoIndex), Scalar(1)),
       Decl(Key("blength", NoIndex), Scalar(l)),
       Decl(IndexedKey("bpose", 0), p)>> : l \in ProbeLengths, p \in ProbePoses}

InitProbe ==
    /\ ndebug = FALSE
    /\ wf \in ProbeFiles
    /\ RobotWorld
    /\ LoadedFrom(wf)
    /\ SchedulerIdle(1)
    /\ lastOp = Op("Init", Sensor)

\* The world starts the sensor ...
ProbeStart ==
    /\ lastOp.op = "Init"
    /\ Startup(Sensor)

\* ... and updates it in the first tick.
ProbeOnce ==
    /\ lastOp.op = "Startup"
    /\ Update(Sensor)

NextProbe == ProbeStart \/ ProbeOnce

SpecProbe == InitProbe /\ [][NextProbe]_vars

-----------------------------------------------------------------------------
(* Specification SpecSched: the tick scheduler.  Every tick it updates every  *)
(* model: the thread-safe ones on the worker pool, the others one at a time   *)
(* in registration order, and waits for all of them.  The world is static.    *)

\* Line 83: ModelBumper asserts that its Update is reentrant; a plain Model
\* does not.
thread_safe == [m \in Models |-> m \in Bumpers]

Running(S) == {m \in S : upd[m] = "running"}

\* The Update of m for this tick has ended: it returned, or it failed.
Returned(m) == upd[m] \in {"done", "failed"}

ThreadSafe == {m \in Models : thread_safe[m]}

ThreadUnsafe == {m \in Models : ~thread_safe[m]}

\* Step 1: the tick counter is incremented and every model is due.
StartTick ==
    /\ phase = "idle"
    /\ tick < MaxTick
    /\ tick' = tick + 1
    /\ phase' = "updating"
    /\ upd' = [m \in Models |-> "pending"]
    /\ lastOp' = Op("StartTick", NoModel)
    /\ emitted' = Quiet
    /\ UNCHANGED <<nworkers, tpos, doneTick, staticVars, aborted, wf, worldVars,
                   modelVars, heapVars>>

\* Lines 180-187 on a worker: a free worker takes a thread-safe model that is
\* due; its Update returns at once when there is no array, and else makes sure
\* that the sample buffer exists.
UpdateBegin(m) ==
    /\ phase = "updating"
    /\ thread_safe[m]
    /\ upd[m] = "pending"
    /\ Cardinality(Running(ThreadSafe)) < nworkers
    /\ lastOp' = Op("UpdateBegin", m)
    /\ IF bumpers[m].null \/ bumper_count[m] < 1
       THEN /\ upd' = [upd EXCEPT ![m] = "done"]
            /\ doneTick' = [doneTick EXCEPT ![m] = tick]
            /\ UNCHANGED <<samples, nalloc, tpos>>
       ELSE /\ upd' = [upd EXCEPT ![m] = "running"]
            /\ tpos' = [tpos EXCEPT ![m] = 0]
            /\ IF IsNull(samples[m])
               THEN /\ nalloc < MaxAllocs
                    /\ nalloc' = nalloc + 1
                    /\ samples' = [samples EXCEPT ![m] =
                           NewSamples(nalloc + 1, bumper_count[m])]
               ELSE UNCHANGED <<samples, nalloc>>
            /\ UNCHANGED doneTick
    /\ emitted' = Quiet
    /\ UNCHANGED <<nworkers, tick, phase, staticVars, aborted, wf, worldVars,
                   bumper_count, bumpers, watts, lifecycle, freed, fault>>

\* An iteration that stores its sample in the buffer of every bumper model.
UpdateStepSharedBuffer(m) ==
    /\ upd[m] = "running"
    /\ thread_safe[m]
    /\ tpos[m] < bumper_count[m]
    /\ lastOp' = Op("UpdateStep", m)
    /\ samples' = [b \in Bumpers |->
           IF tpos[m] < BufLen(samples[b])
           THEN [samples[b] EXCEPT !.data[tpos[m]] =
                    SenseSample(m, tpos[m], samples[m].data[tpos[m]])]
           ELSE samples[b]]
    /\ tpos' = [tpos EXCEPT ![m] = @ + 1]
    /\ emitted' = [Quiet EXCEPT !.rays = [t \in {tpos[m]} |-> CastRays(m)[t]]]
    /\ UNCHANGED <<nworkers, tick, phase, upd, doneTick, staticVars, aborted, wf,
                   worldVars, bumper_count, bumpers, watts, lifecycle, heapVars>>

\* Lines 189-206, one iteration of the loop: transducer t is probed and its
\* sample stored.
UpdateStep(m) ==
    /\ upd[m] = "running"
    /\ thread_safe[m]
    /\ tpos[m] < bumper_count[m]
    /\ lastOp' = Op("UpdateStep", m)
    /\ IF tpos[m] < BufLen(samples[m])
       THEN /\ samples' = [samples EXCEPT ![m].data[tpos[m]] =
                   SenseSample(m, tpos[m], samples[m].data[tpos[m]])]
            /\ UNCHANGED fault
       ELSE /\ fault' = fault \cup {"overflow"}
            /\ UNCHANGED samples
    /\ tpos' = [tpos EXCEPT ![m] = @ + 1]
    /\ emitted' = [Quiet EXCEPT !.rays = [t \in {tpos[m]} |-> CastRays(m)[t]]]
    /\ UNCHANGED <<nworkers, tick, phase, upd, doneTick, staticVars, aborted, wf,
                   worldVars, bumper_count, bumpers, watts, lifecycle, nalloc, freed>>

\* Line 207: the loop is over and Update returns.
UpdateReturn(m) ==
    /\ upd[m] = "running"
    /\ thread_safe[m]
    /\ tpos[m] >= bumper_count[m]
    /\ upd' = [upd EXCEPT ![m] = "done"]
    /\ doneTick' = [doneTick EXCEPT ![m] = tick]
    /\ lastOp' = Op("UpdateReturn", m)
    /\ emitted' = Quiet
    /\ UNCHANGED <<nworkers, tick, phase, tpos, staticVars, aborted, wf, worldVars,
                   modelVars, heapVars>>

\* A dispatch of the thread-unsafe models that waits for nothing.
SerialBeginAtOnce(m) ==
    /\ phase = "updating"
    /\ ~thread_safe[m]
    /\ upd[m] = "pending"
    /\ upd' = [upd EXCEPT ![m] = "running"]
    /\ lastOp' = Op("SerialBegin", m)
    /\ emitted' = Quiet
    /\ UNCHANGED <<nworkers, tick, phase, tpos, doneTick, staticVars, aborted, wf,
                   worldVars, modelVars, heapVars>>

\* Step 4: the serial thread starts the Update of the next thread-unsafe model
\* in registration order.
SerialBegin(m) ==
    /\ phase = "updating"
    /\ ~thread_safe[m]
    /\ upd[m] = "pending"
    /\ Running(ThreadUnsafe) = {}
    /\ \A o \in ThreadUnsafe : Rank(o) < Rank(m) => Returned(o)
    /\ upd' = [upd EXCEPT ![m] = "running"]
    /\ lastOp' = Op("SerialBegin", m)
    /\ emitted' = Quiet
    /\ UNCHANGED <<nworkers, tick, phase, tpos, doneTick, staticVars, aborted, wf,
                   worldVars, modelVars, heapVars>>

\* The Update of a thread-unsafe model returns.
SerialReturn(m) ==
    /\ ~thread_safe[m]
    /\ upd[m] = "running"
    /\ upd' = [upd EXCEPT ![m] = "done"]
    /\ doneTick' = [doneTick EXCEPT ![m] = tick]
    /\ lastOp' = Op("SerialReturn", m)
    /\ emitted' = Quiet
    /\ UNCHANGED <<nworkers, tick, phase, tpos, staticVars, aborted, wf, worldVars,
                   modelVars, heapVars>>

\* A barrier that waits for the worker pool only.
BarrierForWorkersOnly ==
    /\ phase = "updating"
    /\ \A m \in ThreadSafe : Returned(m)
    /\ phase' = "idle"
    /\ lastOp' = Op("Barrier", NoModel)
    /\ emitted' = Quiet
    /\ UNCHANGED <<nworkers, tick, upd, tpos, doneTick, staticVars, aborted, wf,
                   worldVars, modelVars, heapVars>>

\* Step 5: the tick is complete when every Update has returned.
Barrier ==
    /\ phase = "updating"
    /\ \A m \in Models : Returned(m)
    /\ phase' = "idle"
    /\ lastOp' = Op("Barrier", NoModel)
    /\ emitted' = Quiet
    /\ UNCHANGED <<nworkers, tick, upd, tpos, doneTick, staticVars, aborted, wf,
                   worldVars, modelVars, heapVars>>

\* The bumper has two transducers; the whisker has one or is unconfigured.
WhiskerFiles ==
    {<< >>,
     <<Decl(Key("bcount", NoIndex), Scalar(1)), Decl(Key("blength", NoIndex), Scalar(4))>>}

SchedBoxCells == {<<0, -1>>, <<1, 1>>, <<0, 5>>}

InitSched ==
    /\ ndebug = FALSE
    /\ wf = SenseFile
    /\ parent = [m \in Models |-> IF m \in Bumpers THEN "robot" ELSE NoModel]
    /\ obstacle_return = [m \in Models |-> TRUE]
    /\ gpose \in {[m \in Models |->
                      CASE m = "box" -> c
                        [] m = "whisker" -> <<1, 0>>
                        [] OTHER -> <<0, 0>>] : c \in SchedBoxCells}
    /\ \E ww \in WhiskerFiles :
          /\ bumper_count = [m \in Bumpers |->
                 IF m = Sensor THEN 2 ELSE ReadInt(ww, Key("bcount", NoIndex), 0)]
          /\ bumpers = [m \in Bumpers |->
                 IF m = Sensor THEN Array(LoadArray(SenseFile, 2))
                 ELSE IF ww = << >> THEN NullArray
                 ELSE Array(LoadArray(ww, 1))]
    /\ samples = [m \in Bumpers |-> NullSamples]
    /\ watts = [m \in Bumpers |-> BUMPER_WATTS]
    /\ lifecycle = [m \in Bumpers |-> "Started"]
    /\ nalloc = 0
    /\ freed = {}
    /\ fault = {}
    /\ aborted = FALSE
    /\ ArraysAllocated
    /\ Unobserved
    /\ NoController
    /\ \E n \in 1 .. WorldThreads : SchedulerIdle(n)
    /\ lastOp = Op("Init", Sensor)

NextSched ==
    \/ StartTick
    \/ \E m \in Models : UpdateBegin(m)
    \/ \E m \in Models : UpdateStep(m)
    \/ \E m \in Models : UpdateReturn(m)
    \/ \E m \in Models : SerialBegin(m)
    \/ \E m \in Models : SerialReturn(m)
    \/ Barrier

SpecSched == InitSched /\ [][NextSched]_vars

-----------------------------------------------------------------------------
(* Specification SpecFail: the tick scheduler when Updates can fail.  The     *)
(* Update of a bumper model fails when its allocation of the sample buffer    *)
(* throws; the Update of a thread-unsafe model can fail while it runs.  The   *)
(* scheduler records the failure and goes on; its threads keep running.       *)

\* Lines 185-186 on a worker: new[] throws std::bad_alloc, and Update ends
\* before it has a sample buffer.
UpdateFail(m) ==
    /\ phase = "updating"
    /\ thread_safe[m]
    /\ upd[m] = "pending"
    /\ Cardinality(Running(ThreadSafe)) < nworkers
    /\ Configured(m)
    /\ IsNull(samples[m])
    /\ upd' = [upd EXCEPT ![m] = "failed"]
    /\ doneTick' = [doneTick EXCEPT ![m] = tick]
    /\ lastOp' = Op("UpdateFail", m)
    /\ emitted' = Quiet
    /\ UNCHANGED <<nworkers, tick, phase, tpos, staticVars, aborted, wf, worldVars,
                   modelVars, heapVars>>

\* A failure that makes the scheduler give the tick up.
SerialFailHalting(m) ==
    /\ ~thread_safe[m]
    /\ upd[m] = "running"
    /\ upd' = [upd EXCEPT ![m] = "failed"]
    /\ phase' = "halted"
    /\ doneTick' = [doneTick EXCEPT ![m] = tick]
    /\ lastOp' = Op("SerialFail", m)
    /\ emitted' = Quiet
    /\ UNCHANGED <<nworkers, tick, tpos, staticVars, aborted, wf, worldVars,
                   modelVars, heapVars>>

\* The running Update of a thread-unsafe model fails: only its own
\* contribution to the tick is lost.
SerialFail(m) ==
    /\ ~thread_safe[m]
    /\ upd[m] = "running"
    /\ upd' = [upd EXCEPT ![m] = "failed"]
    /\ doneTick' = [doneTick EXCEPT ![m] = tick]
    /\ lastOp' = Op("SerialFail", m)
    /\ emitted' = Quiet
    /\ UNCHANGED <<nworkers, tick, phase, tpos, staticVars, aborted, wf, worldVars,
                   modelVars, heapVars>>

\* The scheduler with one worker or with the pool of the example world.
InitFail ==
    /\ InitSched
    /\ nworkers \in {1, WorldThreads}
    /\ gpose["box"] \in BoxCells

\* The steps the scheduler's threads take by themselves once a tick has begun.
Progress ==
    \/ \E m \in Models : UpdateBegin(m)
    \/ \E m \in Models : UpdateStep(m)
    \/ \E m \in Models : UpdateReturn(m)
    \/ \E m \in Models : SerialBegin(m)
    \/ \E m \in Models : SerialReturn(m)
    \/ Barrier

NextFail ==
    \/ StartTick
    \/ \E m \in Models : UpdateBegin(m)
    \/ \E m \in Models : UpdateFail(m)
    \/ \E m \in Models : UpdateStep(m)
    \/ \E m \in Models : UpdateReturn(m)
    \/ \E m \in Models : SerialBegin(m)
    \/ \E m \in Models : SerialFail(m)
    \/ \E m \in Models : SerialReturn(m)
    \/ Barrier

\* Update never suspends and the threads of the pool are scheduled: a step
\* that the scheduler can take is taken.
SpecFail == InitFail /\ [][NextFail]_vars /\ WF_vars(Progress)

-----------------------------------------------------------------------------
(* Specification SpecLife: the whole life of one sensor, seen from outside:   *)
(* it is loaded and reloaded, started, updated, stopped, printed and drawn in *)
(* any order.                                                                 *)

\* Two entities without a count; a count of 0; one transducer; two
\* transducers, the second mounted two units to the side, where no other
\* model stands.
LifeFiles ==
    {<<Decl(Key("blength", NoIndex), Scalar(4))>>,
     <<Decl(IndexedKey("blength", 0), Scalar(6)), Decl(IndexedKey("bpose", 0), <<0, 0, 0, 180>>)>>,
     <<Decl(Key("bcount", NoIndex), Scalar(0))>>,
     <<Decl(Key("bcount", NoIndex), Scalar(1)), Decl(Key("blength", NoIndex), Scalar(4))>>,
     <<Decl(Key("bcount", NoIndex), Scalar(2)), Decl(Key("blength", NoIndex), Scalar(4)),
       Decl(IndexedKey("bpose", 1), <<2, 0, 0, 0>>)>>}

InitLife ==
    /\ ndebug \in BOOLEAN
    /\ wf = << >>
    /\ RobotWorld
    /\ Constructed
    /\ SchedulerIdle(1)
    /\ lastOp = Op("Init", Sensor)

NextLife ==
    \/ \E w \in LifeFiles : Load(Sensor, w)
    \/ Startup(Sensor)
    \/ Update(Sensor)
    \/ Shutdown(Sensor)
    \/ PrintSamples(Sensor)
    \/ DataVisualize(Sensor)
    \/ ToggleShow
    \/ Destroy(Sensor)

SpecLife == InitLife /\ [][NextLife]_vars

-----------------------------------------------------------------------------
(* The source controller (specification SpecSource): the controller of two   *)
(* models is initialised at some update count of the world, and the world    *)
(* calls the update callbacks of a model any number of times at each count.  *)

\* The models that run the source controller.
Controlled == {"robot", "box"}

\* new Flag( stg_color_pack( 1,1,0,0 ), flagsz ): the colour is kept as the
\* four arguments of stg_color_pack.
NewFlag == [color |-> <<1, 1, 0, 0>>, size |-> flagsz]

\* Model::PushFlag: the flag is added to the model's flags.
PushFlag(fl, flag) == <<flag>> \o fl

\* for( int i=0; i<5; i++ ) mod->PushFlag( ... )
RECURSIVE PushLoop(_, _)
PushLoop(fl, i) == IF i < 5 THEN PushLoop(PushFlag(fl, NewFlag), i + 1) ELSE fl

\* Model::AddUpdateCallback: the callback is added to the model's callbacks.
AddUpdateCallback(cbs, cb) == Append(cbs, cb)

\* The world keeps a callback that returned 0 and removes one that did not.
AfterCall(cbs, cb, r) == IF r = 0 THEN cbs ELSE SelectSeq(cbs, LAMBDA c : c # cb)

Registered(mod, cb) == \E i \in DOMAIN callbacks[mod] : callbacks[mod][i] = cb

\* Init of the source controller, called when the model starts up.
SourceInit(mod) ==
    /\ flags[mod] = << >>
    /\ callbacks[mod] = << >>
    /\ flags' = [flags EXCEPT ![mod] = PushLoop(@, 0)]
    /\ callbacks' = [callbacks EXCEPT ![mod] = AddUpdateCallback(@, "Update")]
    /\ ret' = {0}
    /\ lastOp' = Op("SourceInit", mod)
    /\ emitted' = Quiet
    /\ UNCHANGED <<schedVars, ndebug, showBumperData, arrayHeap, pushDue, aborted, wf,
                   worldVars, modelVars, heapVars>>

\* A callback that pushes a flag whatever the update count is.
SourceUpdateEveryCall(mod) ==
    /\ Registered(mod, "Update")
    /\ Len(flags[mod]) < MaxFlags
    /\ flags' = [flags EXCEPT ![mod] = PushFlag(@, NewFlag)]
    /\ pushDue' = [pushDue EXCEPT ![mod] = IF tick % INTERVAL = 0 THEN @ + 1 ELSE @]
    /\ ret' = {0}
    /\ callbacks' = [callbacks EXCEPT ![mod] = AfterCall(@, "Update", 0)]
    /\ lastOp' = Op("SourceUpdate", mod)
    /\ emitted' = Quiet
    /\ UNCHANGED <<schedVars, ndebug, showBumperData, arrayHeap, aborted, wf, worldVars,
                   modelVars, heapVars>>

\* The world calls the callback Update of the source controller, registered
\* with the model, at its current update count.
SourceUpdate(mod) ==
    /\ Registered(mod, "Update")
    /\ (tick % INTERVAL = 0) => Len(flags[mod]) < MaxFlags
    /\ flags' = [flags EXCEPT ![mod] =
           IF tick % INTERVAL = 0 THEN PushFlag(@, NewFlag) ELSE @]
    /\ pushDue' = [pushDue EXCEPT ![mod] = IF tick % INTERVAL = 0 THEN @ + 1 ELSE @]
    /\ ret' = {0}
    /\ callbacks' = [callbacks EXCEPT ![mod] = AfterCall(@, "Update", 0)]
    /\ lastOp' = Op("SourceUpdate", mod)
    /\ emitted' = Quiet
    /\ UNCHANGED <<schedVars, ndebug, showBumperData, arrayHeap, aborted, wf, worldVars,
                   modelVars, heapVars>>

\* The world completes an update: its update count grows by one.
WorldAdvance ==
    /\ tick < MaxUpdates
    /\ tick' = tick + 1
    /\ lastOp' = Op("WorldAdvance", NoModel)
    /\ emitted' = Quiet
    /\ UNCHANGED <<nworkers, phase, upd, tpos, doneTick, staticVars, aborted, wf, worldVars,
                   modelVars, heapVars>>

InitSource ==
    /\ ndebug = FALSE
    /\ wf = << >>
    /\ RobotWorld
    /\ gpose["box"] = <<0, 5>>
    /\ Constructed
    /\ SchedulerIdle(1)
    /\ lastOp = Op("Init", NoModel)

NextSource ==
    \/ \E mod \in Controlled : SourceInit(mod)
    \/ \E mod \in Controlled : SourceUpdate(mod)
    \/ WorldAdvance

SpecSource == InitSource /\ [][NextSource]_vars

-----------------------------------------------------------------------------
(* Claims about the lifecycle of one sensor (specification Spec) *)

JustDid(op, m) == lastOp = Op(op, m)

\* C1: a sample buffer that exists has exactly as many elements as the current
\* transducer count, and Update never writes a sample index outside the buffer.
SampleBufferMatchesCount ==
    ~aborted =>
        /\ \A m \in Bumpers : ~IsNull(samples[m]) => BufLen(samples[m]) = bumper_count[m]
        /\ "overflow" \notin fault

\* C2: lazy allocation.  A model that is not started has no sample buffer; a
\* buffer comes into existence only by an Update, which allocates it with
\* bumper_count elements; one Update on a configured model leaves a buffer; an
\* Update that finds a buffer keeps that buffer object and allocates nothing.
LazyAllocation ==
    /\ [](\A m \in Bumpers : lifecycle[m] # "Started" => IsNull(samples[m]))
    /\ [][\A m \in Bumpers :
            /\ (IsNull(samples[m]) /\ ~IsNull(samples'[m])) =>
                  /\ lastOp' = Op("Update", m)
                  /\ BufLen(samples'[m]) = bumper_count'[m]
                  /\ samples'[m].id = nalloc + 1
                  /\ nalloc' = nalloc + 1
            /\ (lastOp' = Op("Update", m) /\ Configured(m)) => ~IsNull(samples'[m])
            /\ (lastOp' = Op("Update", m) /\ ~IsNull(samples[m])) =>
                  /\ samples'[m].id = samples[m].id
                  /\ nalloc' = nalloc
         ]_vars

\* C2 witness: a second Update has run on the buffer the first one allocated.
LazyAllocationWitness ==
    /\ JustDid("Update", Sensor)
    /\ Configured(Sensor)
    /\ samples[Sensor].id = 1
    /\ nalloc = 1
    /\ samples[Sensor].data[0].hit_point.set
    /\ samples[Sensor].data[0].hit = NoModel

\* C7: after every Update a sample holds a hit point iff its hit flag is set.
HitPointIffHit ==
    \A m \in Bumpers :
        (JustDid("Update", m) /\ Configured(m)) =>
            \A t \in DOMAIN samples[m].data :
                t < bumper_count[m] =>
                    (samples[m].data[t].hit_point.set
                        <=> samples[m].data[t].hit # NoModel)

\* C8: Shutdown sets the power draw to zero, frees the sample buffer and leaves
\* the transducer array and count unchanged; nothing is freed twice, and a
\* Shutdown that follows a Shutdown changes nothing.
ShutdownContract ==
    [][\A m \in Bumpers :
          lastOp' = Op("Shutdown", m) =>
              /\ watts'[m] = 0
              /\ IsNull(samples'[m])
              /\ ~IsNull(samples[m]) => samples[m].id \in freed'
              /\ lifecycle'[m] = "Stopped"
              /\ UNCHANGED <<bumpers, bumper_count>>
              /\ "double_free" \notin fault'
              /\ lastOp = Op("Shutdown", m) => UNCHANGED <<modelVars, heapVars>>
     ]_vars

\* C8 witness: a Shutdown has freed the buffer of a configured sensor.
ShutdownWitness ==
    /\ JustDid("Shutdown", Sensor)
    /\ Configured(Sensor)
    /\ freed # {}
    /\ IsNull(samples[Sensor])

\* C9: Startup sets the power draw to BUMPER_WATTS and starts the model; on a
\* model that is already started it changes nothing.
StartupContract ==
    [][\A m \in Bumpers :
          lastOp' = Op("Startup", m) =>
              /\ watts'[m] = BUMPER_WATTS
              /\ lifecycle'[m] = "Started"
              /\ lifecycle[m] = "Started" => UNCHANGED <<modelVars, heapVars>>
     ]_vars

\* C9 witness: Startup has run on a started sensor that holds samples.
StartupWitness ==
    /\ JustDid("Startup", Sensor)
    /\ ~IsNull(samples[Sensor])
    /\ watts[Sensor] = BUMPER_WATTS

\* C10: no Update runs on a model whose transducer array was configured from
\* a count <= 0.
NoUpdateOnInvalidCount ==
    \A m \in Bumpers :
        ~(JustDid("Update", m) /\ ~bumpers[m].null /\ bumper_count[m] <= 0)

\* C15: an Update on a model without a transducer array, or with a count of
\* 0, does nothing to the sensor: it allocates no sample buffer, casts no ray
\* and leaves the array, the count, the samples and the power draw unchanged.
UpdateUnconfiguredNoOp ==
    [][\A m \in Bumpers :
          (lastOp' = Op("Update", m) /\ (bumpers[m].null \/ bumper_count[m] = 0)) =>
              /\ UNCHANGED <<bumpers, bumper_count, samples, watts, nalloc, freed, fault>>
              /\ emitted'.rays = << >>
     ]_vars

\* C15 witness: an Update has run on a started sensor that was never
\* configured, and there is still no sample buffer.
UpdateUnconfiguredNoOpWitness ==
    /\ JustDid("Update", Sensor)
    /\ bumpers[Sensor].null
    /\ bumper_count[Sensor] = 0
    /\ lifecycle[Sensor] = "Started"
    /\ IsNull(samples[Sensor])
    /\ nalloc = 0

-----------------------------------------------------------------------------
(* Claims about Load (specification SpecLoad) *)

Declared(w) == {w[i] : i \in DOMAIN w}

Overridden(w, key) == \E d \in Declared(w) : d.key = key

OverrideOf(w, key) == (CHOOSE d \in Declared(w) : d.key = key).val

\* The array the worldfile properties describe, whatever their order.
ExpectedLength(w, i) ==
    IF Overridden(w, IndexedKey("blength", i)) THEN OverrideOf(w, IndexedKey("blength", i))[1]
    ELSE IF Overridden(w, Key("blength", NoIndex)) THEN OverrideOf(w, Key("blength", NoIndex))[1]
    ELSE 0

ExpectedPose(w, i) ==
    IF Overridden(w, IndexedKey("bpose", i))
    THEN LET v == OverrideOf(w, IndexedKey("bpose", i)) IN Pose(v[1], v[2], v[3], v[4])
    ELSE Pose(0, 0, 0, 0)

\* C6: after a Load with a count N, transducer i in [0, N) has the overriding
\* length if blength[i] is declared and the common length otherwise, and the
\* overriding pose if bpose[i] is declared and (0,0,0,0) otherwise, whatever
\* the order of the declarations and whatever was configured before.
DefaultThenOverride ==
    (JustDid("Load", Sensor) /\ ~aborted /\ Overridden(wf, Key("bcount", NoIndex))) =>
        LET n == OverrideOf(wf, Key("bcount", NoIndex))[1]
        IN  /\ bumper_count[Sensor] = n
            /\ ~bumpers[Sensor].null
            /\ DOMAIN bumpers[Sensor].elems = 0 .. n - 1
            /\ \A i \in 0 .. n - 1 :
                  /\ bumpers[Sensor].elems[i].length = ExpectedLength(wf, i)
                  /\ bumpers[Sensor].elems[i].pose = ExpectedPose(wf, i)

\* C6 witness: the override of transducer 0 is declared before the common
\* length and before the count.
DefaultThenOverrideWitness ==
    /\ JustDid("Load", Sensor)
    /\ wf = <<Decl(IndexedKey("blength", 0), Scalar(6)),
              Decl(Key("blength", NoIndex), Scalar(2)),
              Decl(Key("bcount", NoIndex), Scalar(2))>>
    /\ bumpers[Sensor].elems[0].length = 6
    /\ bumpers[Sensor].elems[1].length = 2

-----------------------------------------------------------------------------
(* Claims about sensing (specification SpecSense) *)

\* Model c stands on the probe ray of transducer t of sensor m, within range.
OnProbe(m, t, c) ==
    LET cfg == bumpers[m].elems[t]
    IN  \E k \in 0 .. cfg.length : gpose[c] = RayPoint(m, ProbePose(cfg), k)

\* C5: the model recorded as a hit is never the sensor, an ancestor or a
\* descendant of it; when only related models stand on the ray, there is no hit.
SelfExclusion ==
    \A m \in Bumpers :
        (JustDid("Update", m) /\ Configured(m)) =>
            \A t \in 0 .. bumper_count[m] - 1 :
                LET hit == samples[m].data[t].hit
                IN  /\ hit \in Models => ~IsRelated(hit, m)
                    /\ (\A c \in Models : OnProbe(m, t, c) => IsRelated(c, m))
                           => hit = NoModel

\* C5 witness: besides the sensor only a visible descendant stands on the ray
\* of transducer 0, and the sample records no hit.
SelfExclusionWitness ==
    /\ JustDid("Update", Sensor)
    /\ \E c \in Models \ {Sensor} :
          /\ IsAncestor(Sensor, c)
          /\ obstacle_return[c]
          /\ OnProbe(Sensor, 0, c)
    /\ \A c \in Models : OnProbe(Sensor, 0, c) => IsRelated(c, Sensor)
    /\ samples[Sensor].data[0].hit = NoModel

\* C17: after an Update the sample of transducer t holds a hit exactly when a
\* visible model that is unrelated to the sensor stands on the probe ray of t
\* within the transducer's length; the model recorded is visible; and when
\* such a model stands 0.05 (1 unit) along the ray of a transducer of length
\* 0.2 (4 units), the sample holds a hit whose point is that point of the ray.
HitIffVisibleUnrelated ==
    \A m \in Bumpers :
        (JustDid("Update", m) /\ Configured(m)) =>
            \A t \in 0 .. bumper_count[m] - 1 :
                LET cfg == bumpers[m].elems[t]
                    sample == samples[m].data[t]
                    Obstacle(c) == obstacle_return[c] /\ ~IsRelated(c, m)
                    near == RayPoint(m, ProbePose(cfg), 1)
                IN  /\ sample.hit # NoModel <=>
                          \E c \in Models : Obstacle(c) /\ OnProbe(m, t, c)
                    /\ sample.hit \in Models => obstacle_return[sample.hit]
                    /\ (/\ cfg.length = 4
                        /\ \E c \in Models : Obstacle(c) /\ gpose[c] = near
                        /\ \A c \in Models :
                              Obstacle(c) => gpose[c] # RayPoint(m, ProbePose(cfg), 0))
                          => /\ sample.hit # NoModel
                             /\ gpose[sample.hit] = near
                             /\ sample.hit_point = Point(near[1], near[2])

\* C17 witness: the box, visible and unrelated, stands one unit along the ray
\* of transducer 0, which starts at (0, -2); an invisible unrelated model
\* stands there too; the sample holds the box and the point (0, -1).
HitIffVisibleUnrelatedWitness ==
    /\ JustDid("Update", Sensor)
    /\ gpose["box"] = <<0, -1>>
    /\ obstacle_return["box"]
    /\ ~IsRelated("box", Sensor)
    /\ gpose["robot"] = <<0, -1>>
    /\ ~obstacle_return["robot"]
    /\ ~IsRelated("robot", Sensor)
    /\ samples[Sensor].data[0].hit = "box"
    /\ samples[Sensor].data[0].hit_point = Point(0, -1)

-----------------------------------------------------------------------------
(* Claims about the scheduler (specification SpecSched) *)

\* C3: the tick counter advances to T+1 only when every model's Update for
\* tick T has returned, and no Update of tick T+1 is running while a model has
\* not finished tick T.
TickBarrier ==
    /\ [](\A m \in Models :
             upd[m] = "running" => \A o \in Models : doneTick[o] >= tick - 1)
    /\ [][tick' # tick =>
             /\ tick' = tick + 1
             /\ \A m \in Models : upd[m] = "done" /\ doneTick[m] = tick]_vars

\* C3 witness: the second tick has begun, the worker pool has finished it and
\* a thread-unsafe model is still in its Update.
TickBarrierWitness ==
    /\ tick = 2
    /\ phase = "updating"
    /\ \A m \in ThreadSafe : doneTick[m] = 2
    /\ upd["box"] = "running"

RECURSIVE SequentialSamples(_, _)
\* The sample data of bumper m after n Updates run one after the other, alone.
SequentialSamples(m, n) ==
    IF n = 0 THEN NewSamples(0, bumper_count[m])
    ELSE SenseAll(m, SequentialSamples(m, n - 1))

\* C4: in a static world, whatever the interleaving and the pool size, the
\* samples of a bumper whose Update of the tick has returned are those of the
\* sequential run, and a step of one model's Update changes no other model's
\* buffer.
ConcurrentDeterminism ==
    /\ [](\A m \in Bumpers :
             (Configured(m) /\ upd[m] = "done" /\ doneTick[m] >= 1) =>
                 samples[m].data = SequentialSamples(m, doneTick[m]).data)
    /\ [][\A m \in Bumpers : samples'[m] # samples[m] => lastOp'.m = m]_vars

\* C4 witness: the whisker's Update began after the bumper's, and returned
\* with its samples while the bumper's was still in its loop.
ConcurrentDeterminismWitness ==
    /\ upd["bumper"] = "running"
    /\ tpos["bumper"] = 1
    /\ samples["whisker"].id = 2
    /\ upd["whisker"] = "done"
    /\ doneTick["whisker"] = 1
    /\ samples["whisker"].data[0].hit = "box"

-----------------------------------------------------------------------------
(* Claims about the whole life of one sensor (specification SpecLife) *)

\* C11: no operation reads or writes a sample while the model has no sample
\* buffer: whatever the sequence of Load, Startup, Update, Shutdown, Print and
\* DataVisualize, no access goes through the NULL buffer pointer.
NoUnallocatedSampleAccess == "null_read" \notin fault

\* C12: DataVisualize is a read-only projection: it never changes the
\* transducer array, the count or the sample buffer; with the option off or
\* without a sample buffer it draws nothing; otherwise it draws one rectangle
\* per transducer, red and 0.02 thick when that transducer's sample holds a
\* hit, green and 0.01 thick when it holds none.
VisualizeProjection ==
    [][\A m \in Bumpers :
          lastOp' = Op("DataVisualize", m) =>
              LET rects == emitted'.rects
              IN  /\ UNCHANGED <<bumpers, bumper_count, samples>>
                  /\ (~showBumperData \/ IsNull(samples[m])) => rects = << >>
                  /\ (showBumperData /\ ~IsNull(samples[m])) =>
                        /\ DOMAIN rects = 0 .. bumper_count[m] - 1
                        /\ \A t \in DOMAIN rects :
                              /\ t \in DOMAIN samples[m].data
                              /\ samples[m].data[t].hit \in Models =>
                                    /\ rects[t].color = Red
                                    /\ rects[t].y2 - rects[t].y1 = HitThickness
                              /\ samples[m].data[t].hit = NoModel =>
                                    /\ rects[t].color = Green
                                    /\ rects[t].y2 - rects[t].y1 = NoHitThickness
     ]_vars

LiveSamples == (1 .. nalloc) \ freed

HeldSamples == {samples[m].id : m \in {b \in Bumpers : ~IsNull(samples[b])}}

HeldArrays == {arrAddr[m] : m \in {b \in Bumpers : ~bumpers[b].null}}

\* C19: buffer lifetime.  Nothing is freed twice; while the sensor exists, the
\* buffers that are allocated are exactly those its pointers hold, so that no
\* operation reaches a freed buffer and none is lost; once the sensor is
\* destroyed, every array and every sample buffer that was allocated is freed.
BufferLifetime ==
    /\ "double_free" \notin fault
    /\ (lifecycle[Sensor] # "Destroyed" /\ ~aborted) =>
          /\ HeldSamples = LiveSamples
          /\ HeldArrays = arrLive
    /\ lifecycle[Sensor] = "Destroyed" =>
          /\ LiveSamples = {}
          /\ arrLive = {}

\* C19 witness: the sensor was reloaded, stopped and started again, and was
\* destroyed holding its array and its second sample buffer; all are freed.
BufferLifetimeWitness ==
    /\ JustDid("Destroy", Sensor)
    /\ ~bumpers[Sensor].null
    /\ samples[Sensor].id = 2
    /\ BufLen(samples[Sensor]) = 2
    /\ freed = {1, 2}
    /\ arrLive = {}

-----------------------------------------------------------------------------
(* More claims about the scheduler (specification SpecSched) *)

\* C13: in every tick at most one thread-unsafe model is in its Update, and
\* the thread-unsafe models are updated in registration order: one starts only
\* when none is running and all those registered before it have finished this
\* tick.  Only thread-safe models are in flight together, at most one per
\* worker of the pool.
SerialUpdates ==
    /\ [](Cardinality(Running(ThreadUnsafe)) <= 1)
    /\ [](Cardinality(Running(ThreadSafe)) <= nworkers)
    /\ [](phase = "updating" =>
             \A m, o \in ThreadUnsafe :
                 (Rank(o) < Rank(m) /\ upd[m] # "pending") =>
                     upd[o] = "done" /\ doneTick[o] = tick)
    /\ [][\A m \in ThreadUnsafe :
             (upd[m] # "running" /\ upd'[m] = "running") =>
                 /\ Running(ThreadUnsafe) = {}
                 /\ \A o \in ThreadUnsafe : Rank(o) < Rank(m) => doneTick[o] = tick
         ]_vars

\* C13 witness: in the second tick both bumper models are in their Updates on
\* two workers while the box, the last thread-unsafe model, is in its own, the
\* robot having finished.
SerialUpdatesWitness ==
    /\ tick = 2
    /\ upd["bumper"] = "running"
    /\ upd["whisker"] = "running"
    /\ upd["robot"] = "done"
    /\ upd["box"] = "running"

-----------------------------------------------------------------------------
(* Claims about failing Updates (specification SpecFail) *)

\* C14: when the Update of a model fails during a tick, the tick still
\* reaches its barrier; the failing step changes no other model's sample
\* buffer and no pose, and every bumper model whose Update returned holds the
\* samples it holds when it is updated alone.
FailureIsolation ==
    /\ (\E m \in Models : upd[m] = "failed") ~> (phase = "idle")
    /\ [][\A m \in Models :
             (upd[m] # "failed" /\ upd'[m] = "failed") =>
                 /\ gpose' = gpose
                 /\ \A o \in Bumpers \ {m} : samples'[o] = samples[o]
         ]_vars
    /\ [](\A o \in Bumpers :
             (Configured(o) /\ upd[o] = "done" /\ doneTick[o] >= 1) =>
                 samples[o].data = SequentialSamples(o, 1).data)

\* C14 witness: the first tick is complete although the Updates of the robot
\* and of the whisker failed, and the bumper holds its sample of the box.
FailureIsolationWitness ==
    /\ tick = 1
    /\ phase = "idle"
    /\ upd["robot"] = "failed"
    /\ upd["whisker"] = "failed"
    /\ IsNull(samples["whisker"])
    /\ upd["bumper"] = "done"
    /\ samples["bumper"].data[0].hit = "box"

-----------------------------------------------------------------------------
(* Claims about the probe rays (specification SpecProbe) *)

\* The unit step along a probe heading.
Along(a) ==
    CASE a = 90 -> <<0, 1>>
      [] a = 180 -> <<-1, 0>>
      [] a = 270 -> <<0, -1>>
      [] a = 360 -> <<1, 0>>

\* C16: Update casts exactly one ray per transducer; its heading is the
\* heading of the transducer plus 90 degrees, its origin is the position of
\* the transducer moved back by half the transducer's length along that
\* heading, and its range is the transducer's length.  A transducer at
\* (0, 0, 0, 0 deg) of length 0.2 (4 units) is probed from (0, -0.1) (2 units
\* back) along 90 degrees over a range of 0.2.
ProbeGeometry ==
    \A m \in Bumpers :
        (JustDid("Update", m) /\ Configured(m)) =>
            /\ DOMAIN emitted.rays = 0 .. bumper_count[m] - 1
            /\ \A t \in DOMAIN emitted.rays :
                  LET cfg == bumpers[m].elems[t]
                      ray == emitted.rays[t]
                      half == cfg.length \div 2
                  IN  /\ ray.a = cfg.pose.a + 90
                      /\ ray.x = cfg.pose.x - half * Along(ray.a)[1]
                      /\ ray.y = cfg.pose.y - half * Along(ray.a)[2]
                      /\ ray.range = cfg.length
                      /\ (cfg.pose = Pose(0, 0, 0, 0) /\ cfg.length = 4) =>
                            ray = [x |-> 0, y |-> -2, a |-> 90, range |-> 4]

\* C16 witness: the transducer at (0, 0, 0, 0) of length 4 has been probed
\* from (0, -2) along 90 degrees over a range of 4.
ProbeGeometryWitness ==
    /\ JustDid("Update", Sensor)
    /\ bumpers[Sensor].elems[0] = BumperConfig(Pose(0, 0, 0, 0), 4)
    /\ emitted.rays = [t \in {0} |-> [x |-> 0, y |-> -2, a |-> 90, range |-> 4]]

-----------------------------------------------------------------------------
(* Claims about the source controller (specification SpecSource) *)

\* Appending the older flags fl to some n new flags gives the flags now.
Grown(now, fl, n) ==
    /\ Len(now) = Len(fl) + n
    /\ \A i \in 1 .. Len(fl) : now[n + i] = fl[i]

\* C21: Init of the source controller pushes exactly 5 flags and registers
\* the callback Update; each call of the callback pushes exactly one flag
\* when the world's update count is a multiple of 200 (0 included) and none
\* otherwise; no step removes a flag; both functions return 0 and the
\* callback stays registered; so a model whose controller was initialised
\* carries 5 flags plus one for each callback that ran at a multiple of 200.
SourceFlagCount ==
    /\ [][\A mod \in Controlled :
             /\ lastOp' = Op("SourceInit", mod) =>
                    /\ Grown(flags'[mod], flags[mod], 5)
                    /\ ~Registered(mod, "Update")
                    /\ callbacks'[mod] = <<"Update">>
                    /\ ret' = {0}
             /\ lastOp' = Op("SourceUpdate", mod) =>
                    /\ Grown(flags'[mod], flags[mod], IF tick % 200 = 0 THEN 1 ELSE 0)
                    /\ callbacks'[mod] = callbacks[mod]
                    /\ ret' = {0}
             /\ \E n \in 0 .. 5 : Grown(flags'[mod], flags[mod], n)
       ]_vars
    /\ [](\A mod \in Controlled :
             IF callbacks[mod] = << >>
             THEN flags[mod] = << >>
             ELSE /\ callbacks[mod] = <<"Update">>
                  /\ Len(flags[mod]) = 5 + pushDue[mod])

\* C21 witness: at update count 400 the callback of the robot has just run;
\* it ran at a multiple of 200 three times, and the robot carries 8 flags,
\* while the box, initialised later, carries 5.
SourceFlagCountWitness ==
    /\ JustDid("SourceUpdate", "robot")
    /\ tick = 400
    /\ pushDue["robot"] = 3
    /\ Len(flags["robot"]) = 8
    /\ Len(flags["box"]) = 5
    /\ \A i \in 1 .. 8 : flags["robot"][i] = NewFlag

====
